---- MODULE Spec2Model ----
(***************************************************************************)
(* asndb: an in-memory IP-range -> ASN database (src/src/store.rs) with    *)
(* its string pool (src/src/stringpool.rs).                                *)
(*                                                                         *)
(* Representation of the program's values:                                 *)
(*   - a string, a file and a TSV text are sequences of bytes (0..255);    *)
(*   - a u32 that holds an address or an AS number is a pair of 16-bit     *)
(*     limbs <<hi, lo>>, a u128 is eight 16-bit limbs, most significant    *)
(*     first, so that the full 32-bit and 128-bit widths are kept;         *)
(*   - a count, a file position or a pool offset is a natural number;      *)
(*   - a BTreeSet ordered by `starts` is a sequence sorted by `starts`     *)
(*     without two entries of equal `starts`;                              *)
(*   - a HashMap is a function; its iteration order is chosen freely.      *)
(***************************************************************************)
EXTENDS Integers, Sequences, FiniteSets, TLC

\* ------------------------------------------------------------------ bounds

\* The largest number of '\n'-separated rows in an ingested TSV text.
MaxLines == 2

\* ---------------------------------------------------------- program constants

HEADER_SIZE == 1024
VERSION == 2
PADDING_SIZE == HEADER_SIZE - (16 + 2 + 4 * 6)
TAB == 9
LF == 10

\* --------------------------------------------------------------- bytes, text

\* The printable ASCII characters in code order, from 32 (space) to 126; the
\* place of code 96, which a string literal cannot hold, is filled by a tab.
Ascii == " !\"#$%&'()*+,-./0123456789:;<=>?@ABCDEFGHIJKLMNOPQRSTUVWXYZ[\\]^_\tabcdefghijklmnopqrstuvwxyz{|}~"

\* The byte of a one-character string.
Ord(c) ==
  IF c = "\t" THEN TAB
  ELSE IF c = "\n" THEN LF
  ELSE 31 + (CHOOSE i \in 1..Len(Ascii) : SubSeq(Ascii, i, i) = c)

\* str.as_bytes(): the bytes of an ASCII string literal.
Bytes(str) == [i \in 1..Len(str) |-> Ord(SubSeq(str, i, i))]

SIGNATURE == Bytes("_IPRANGECACHE_DB")

\* The bytes the parsers of addresses and numbers look for.
DOT == Ord(".")
COLON == Ord(":")
PLUS == Ord("+")
ZERO == Ord("0")

Zeros(n) == [i \in 1..n |-> 0]

RECURSIVE Concat(_)
\* The concatenation of a sequence of sequences.
Concat(ss) == IF ss = <<>> THEN <<>> ELSE Head(ss) \o Concat(Tail(ss))

\* The position of the first `sep` in s, or 0.
IndexOf(s, sep) ==
  IF \E i \in 1..Len(s) : s[i] = sep
  THEN CHOOSE i \in 1..Len(s) : s[i] = sep /\ \A j \in 1..(i - 1) : s[j] # sep
  ELSE 0

RECURSIVE Split(_, _)
\* str::split(sep): the pieces between separators; the empty string gives one
\* empty piece, a trailing separator a trailing empty piece.
Split(s, sep) ==
  LET i == IndexOf(s, sep)
  IN IF i = 0 THEN <<s>>
     ELSE <<SubSeq(s, 1, i - 1)>> \o Split(SubSeq(s, i + 1, Len(s)), sep)

\* Iterator::take(n)
Take(ss, n) == SubSeq(ss, 1, IF Len(ss) < n THEN Len(ss) ELSE n)

IsCont(b) == b >= 128 /\ b <= 191

\* The length of the UTF-8 character that byte b leads, or 0.
Utf8Width(b) ==
  IF b <= 127 THEN 1
  ELSE IF b >= 194 /\ b <= 223 THEN 2
  ELSE IF b >= 224 /\ b <= 239 THEN 3
  ELSE IF b >= 240 /\ b <= 244 THEN 4
  ELSE 0

\* Whether a well-formed UTF-8 character starts at position i of s: the lead
\* byte, its continuation bytes, and the narrower range of the second byte
\* after E0, ED, F0 and F4.
Utf8CharAt(s, i) ==
  LET b == s[i]
      w == Utf8Width(b)
  IN /\ w > 0
     /\ i + w - 1 <= Len(s)
     /\ \A j \in (i + 1)..(i + w - 1) : IsCont(s[j])
     /\ b = 224 => s[i + 1] >= 160
     /\ b = 237 => s[i + 1] <= 159
     /\ b = 240 => s[i + 1] >= 144
     /\ b = 244 => s[i + 1] <= 143

\* std::str::from_utf8 succeeds: what read_to_string requires of the bytes
\* read. Every byte that is no continuation byte starts a well-formed
\* character, and every continuation byte belongs to the character before it.
IsUtf8(s) ==
  \A i \in 1..Len(s) :
    IF IsCont(s[i])
    THEN \E j \in 1..(i - 1) :
           /\ i - j < Utf8Width(s[j])
           /\ \A k \in (j + 1)..i : IsCont(s[k])
    ELSE Utf8CharAt(s, i)

\* str::is_char_boundary(i), i counted in bytes from 0.
IsCharBoundary(s, i) == i = 0 \/ i = Len(s) \/ (i < Len(s) /\ ~IsCont(s[i + 1]))

\* --------------------------------------------------------- limbs and integers

RECURSIVE LimbLt(_, _)
\* a < b for two unsigned integers of the same width, given by their limbs.
LimbLt(a, b) ==
  IF a = <<>> THEN FALSE
  ELSE IF a[1] # b[1] THEN a[1] < b[1]
  ELSE LimbLt(Tail(a), Tail(b))

LimbLe(a, b) == a = b \/ LimbLt(a, b)

\* u32::from(Ipv4Addr), u128::from(Ipv6Addr): the octets read big-endian.
UIntFromOctets(o) == [i \in 1..(Len(o) \div 2) |-> o[2 * i - 1] * 256 + o[2 * i]]

\* write_u32::<BigEndian>, write_u128::<BigEndian> of an integer given by limbs.
WriteLimbsBE(l) == [i \in 1..(2 * Len(l)) |->
                      IF i % 2 = 1 THEN l[(i + 1) \div 2] \div 256 ELSE l[i \div 2] % 256]

\* read_u32::<BigEndian>, read_u128::<BigEndian> into limbs.
ReadLimbsBE(b) == [i \in 1..(Len(b) \div 2) |-> b[2 * i - 1] * 256 + b[2 * i]]

\* write_u32::<BigEndian>(n) of a count or a position.
WriteU32BE(n) == <<(n \div 16777216) % 256, (n \div 65536) % 256, (n \div 256) % 256, n % 256>>

\* BigEndian::read_u32
ReadU32BE(b) == ((b[1] * 256 + b[2]) * 256 + b[3]) * 256 + b[4]

\* BigEndian::read_u16
ReadU16BE(b) == b[1] * 256 + b[2]

\* u32::to_le_bytes
ToLeBytes(n) == <<n % 256, (n \div 256) % 256, (n \div 65536) % 256, (n \div 16777216) % 256>>

\* u32::from_le_bytes
FromLeBytes(b) == ((b[4] * 256 + b[3]) * 256 + b[2]) * 256 + b[1]

\* ------------------------------------------------- parsing (str::parse, std)

NoParse == [ok |-> FALSE]

\* char::to_digit(radix) of byte b, or -1.
ToDigit(b, radix) ==
  IF b >= 48 /\ b <= 57 THEN b - 48
  ELSE IF radix = 16 /\ b >= 97 /\ b <= 102 THEN b - 87
  ELSE IF radix = 16 /\ b >= 65 /\ b <= 70 THEN b - 55
  ELSE -1

HasByte(s, pos, b) == pos < Len(s) /\ s[pos + 1] = b

RECURSIVE ReadDigits(_, _, _, _, _, _)
\* The digit loop of the address parser's read_number: at most maxDigits digits.
ReadDigits(s, pos, radix, maxDigits, count, acc) ==
  IF pos < Len(s) /\ ToDigit(s[pos + 1], radix) >= 0
  THEN IF count + 1 > maxDigits THEN NoParse
       ELSE ReadDigits(s, pos + 1, radix, maxDigits, count + 1,
                       acc * radix + ToDigit(s[pos + 1], radix))
  ELSE [ok |-> TRUE, pos |-> pos, count |-> count, val |-> acc]

\* The checks of read_number on the digits r read from pos: at least one
\* digit, no zero prefix unless allowed, a value the integer type holds.
CheckNumber(s, pos, r, allowZeroPrefix, maxVal) ==
  IF ~r.ok THEN NoParse
  ELSE IF r.count = 0 THEN NoParse
  ELSE IF ~allowZeroPrefix /\ HasByte(s, pos, ZERO) /\ r.count > 1 THEN NoParse
  ELSE IF r.val > maxVal THEN NoParse
  ELSE [ok |-> TRUE, pos |-> r.pos, val |-> r.val]

\* The address parser's read_number(radix, Some(maxDigits), allowZeroPrefix) into
\* an integer type whose largest value is maxVal; pos counts the bytes consumed.
ReadNumber(s, pos, radix, maxDigits, allowZeroPrefix, maxVal) ==
  CheckNumber(s, pos, ReadDigits(s, pos, radix, maxDigits, 0, 0), allowZeroPrefix, maxVal)

\* The address parser's read_separator: the separator is read before every
\* group but the first; -1 when it is missing.
AfterSeparator(s, pos, sep, index) ==
  IF index = 0 THEN pos ELSE IF HasByte(s, pos, sep) THEN pos + 1 ELSE -1

RECURSIVE ReadIpv4Groups(_, _, _, _)

\* The loop of read_ipv4_addr after octet i was read as n.
ReadIpv4Next(s, n, i, acc) ==
  IF ~n.ok THEN NoParse ELSE ReadIpv4Groups(s, n.pos, i + 1, Append(acc, n.val))

\* The loop of read_ipv4_addr at octet i, p being the position after its separator.
ReadIpv4Octet(s, p, i, acc) ==
  IF p < 0 THEN NoParse ELSE ReadIpv4Next(s, ReadNumber(s, p, 10, 3, FALSE, 255), i, acc)

\* The loop of read_ipv4_addr: four decimal octets, no octal zero prefix.
ReadIpv4Groups(s, pos, i, acc) ==
  IF i = 4 THEN [ok |-> TRUE, pos |-> pos, octets |-> acc]
  ELSE ReadIpv4Octet(s, AfterSeparator(s, pos, DOT, i), i, acc)

\* The address parser's read_ipv4_addr: four decimal octets separated by dots.
ReadIpv4Addr(s, pos) == ReadIpv4Groups(s, pos, 0, <<>>)

RECURSIVE ReadGroups(_, _, _, _, _)

\* read_groups at group i: v4 is the embedded IPv4 address tried first, g the
\* hexadecimal group tried next.
ReadGroupPick(s, pos, limit, i, acc, v4, g) ==
  IF v4.ok
  THEN [pos |-> v4.pos,
        groups |-> acc \o <<v4.octets[1] * 256 + v4.octets[2],
                            v4.octets[3] * 256 + v4.octets[4]>>,
        ipv4 |-> TRUE]
  ELSE IF g.ok THEN ReadGroups(s, g.pos, limit, i + 1, Append(acc, g.val))
  ELSE [pos |-> pos, groups |-> acc, ipv4 |-> FALSE]

\* read_groups at group i, p being the position after its separator: an
\* embedded IPv4 address is tried while at least two groups are left.
ReadGroupAt(s, pos, p, limit, i, acc) ==
  ReadGroupPick(s, pos, limit, i, acc,
                IF i < limit - 1 /\ p >= 0 THEN ReadIpv4Addr(s, p) ELSE NoParse,
                IF p >= 0 THEN ReadNumber(s, p, 16, 4, TRUE, 65535) ELSE NoParse)

\* read_groups of the address parser's read_ipv6_addr: up to `limit` 16-bit
\* groups separated by colons, the last two of which may be a dotted IPv4 address.
ReadGroups(s, pos, limit, i, acc) ==
  IF i >= limit THEN [pos |-> pos, groups |-> acc, ipv4 |-> FALSE]
  ELSE ReadGroupAt(s, pos, AfterSeparator(s, pos, COLON, i), limit, i, acc)

\* Ipv6Addr::octets of the eight 16-bit groups.
GroupOctets(groups) == WriteLimbsBE(groups)

\* read_ipv6_addr once the groups after "::" are read: the tail is placed at the
\* end, zero groups between.
ReadIpv6Join(head, tail) ==
  [ok |-> TRUE, pos |-> tail.pos,
   octets |-> GroupOctets(head.groups
                          \o Zeros(8 - Len(head.groups) - Len(tail.groups))
                          \o tail.groups)]

\* read_ipv6_addr once the groups before "::" are read.
ReadIpv6Tail(s, head) ==
  IF Len(head.groups) = 8
  THEN [ok |-> TRUE, pos |-> head.pos, octets |-> GroupOctets(head.groups)]
  ELSE IF head.ipv4 THEN NoParse
  ELSE IF ~(HasByte(s, head.pos, COLON) /\ HasByte(s, head.pos + 1, COLON)) THEN NoParse
  ELSE ReadIpv6Join(head, ReadGroups(s, head.pos + 2, 8 - (Len(head.groups) + 1), 0, <<>>))

\* The address parser's read_ipv6_addr.
ReadIpv6Addr(s, pos) == ReadIpv6Tail(s, ReadGroups(s, pos, 8, 0, <<>>))

\* from_str when no IPv4 address was read: the IPv6 address must take the
\* whole string.
ParseIpv6Whole(s, v6) ==
  IF v6.ok /\ v6.pos = Len(s) THEN [ok |-> TRUE, fam |-> 6, octets |-> v6.octets] ELSE NoParse

\* from_str after the attempt v4 at an IPv4 address: it must take the whole
\* string; an IPv6 address is tried only if no IPv4 address was read.
ParseIpPick(s, v4) ==
  IF v4.ok
  THEN IF v4.pos = Len(s) THEN [ok |-> TRUE, fam |-> 4, octets |-> v4.octets] ELSE NoParse
  ELSE ParseIpv6Whole(s, ReadIpv6Addr(s, 0))

\* <IpAddr as FromStr>::from_str: an IPv4 address, else an IPv6 address, that
\* takes the whole string. fam is 4 or 6, octets the address's 4 or 16 bytes.
ParseIpAddr(s) == ParseIpPick(s, ReadIpv4Addr(s, 0))

RECURSIVE ParseU32Digits(_, _, _)
\* The digit loop of u32::from_str: acc is <<hi, lo>>; fails on a byte that is
\* no decimal digit and on a value above u32::MAX.
ParseU32Digits(s, i, acc) ==
  IF i > Len(s) THEN [ok |-> TRUE, val |-> acc]
  ELSE LET d == ToDigit(s[i], 10)
           lo == acc[2] * 10 + d
           hi == acc[1] * 10 + lo \div 65536
       IN IF d < 0 \/ hi > 65535 THEN NoParse
          ELSE ParseU32Digits(s, i + 1, <<hi, lo % 65536>>)

\* <u32 as FromStr>::from_str: decimal digits after an optional '+'.
ParseU32(s) ==
  LET digits == IF Len(s) > 0 /\ s[1] = PLUS THEN Tail(s) ELSE s
  IN IF digits = <<>> THEN NoParse ELSE ParseU32Digits(digits, 1, <<0, 0>>)

\* ------------------------------------------------------ Option, StringPool

None == [some |-> FALSE]
Some(v) == [some |-> TRUE, val |-> v]

\* StringPool::new
StringPoolNew == [pool |-> <<>>, cache |-> <<>>]

\* StringPool::load: the pool is adopted, the cache starts empty.
StringPoolLoad(pool) == [pool |-> pool, cache |-> <<>>]

\* Token with the two u32 written big-endian, as the rest of the file is.
TokenBigEndian(start_index, length) == WriteU32BE(start_index) \o WriteU32BE(length)

\* The 8-byte token of (start_index, length): two little-endian u32.
Token(start_index, length) == ToLeBytes(start_index) \o ToLeBytes(length)

\* The value of `self.cache.get(slice).map(|&(start_index, length)| { ... })` in
\* pack: the token recorded for an interned string. The closure's `return`
\* leaves the closure only, and the statement ends in `;`.
PackCached(sp, slice) ==
  IF slice \in DOMAIN sp.cache
  THEN Some(Token(sp.cache[slice][1], sp.cache[slice][2]))
  ELSE None

\* StringPool::pack: the pool after the call and the token returned. The value
\* of PackCached is dropped, so the string is appended whether interned or not.
Pack(sp, slice) ==
  LET dropped == PackCached(sp, slice)
      start_index == Len(sp.pool)
      length == Len(slice)
  IN [sp |-> [pool |-> sp.pool \o slice,
              cache |-> [k \in DOMAIN sp.cache \cup {slice} |->
                           IF k = slice THEN <<start_index, length>> ELSE sp.cache[k]]],
      token |-> Token(start_index, length)]

\* StringPool::unpack: the string of a token; an out-of-bounds token gives the
\* empty string, a slice that cuts a UTF-8 character panics.
Unpack(sp, data) ==
  LET start_index == FromLeBytes(SubSeq(data, 1, 4))
      length == FromLeBytes(SubSeq(data, 5, 8))
  IN IF start_index + length > Len(sp.pool) THEN [panic |-> FALSE, str |-> <<>>]
     ELSE IF ~(IsCharBoundary(sp.pool, start_index)
               /\ IsCharBoundary(sp.pool, start_index + length))
     THEN [panic |-> TRUE, str |-> <<>>]
     ELSE [panic |-> FALSE, str |-> SubSeq(sp.pool, start_index + 1, start_index + length)]

\* ------------------------------------------------------------- IPRangeSet

\* IPRangeEntry
IPRangeEntry(starts, ends, asn) == [asn |-> asn, starts |-> starts, ends |-> ends]

\* IPRangeSet::insert: BTreeSet::insert under an order that compares `starts`
\* alone; an entry whose `starts` is already present is not inserted.
Insert(set, starts, ends, asn) ==
  IF \E i \in 1..Len(set) : set[i].starts = starts THEN set
  ELSE LET k == Cardinality({i \in 1..Len(set) : LimbLt(set[i].starts, starts)})
       IN SubSeq(set, 1, k) \o <<IPRangeEntry(starts, ends, asn)>>
            \o SubSeq(set, k + 1, Len(set))

\* find with the end of the range excluded: `o.ends > needle`.
FindEndExcluded(set, needle) ==
  LET upto == SelectSeq(set, LAMBDA o : LimbLe(o.starts, needle))
  IN IF upto = <<>> THEN None
     ELSE LET o == upto[Len(upto)]
          IN IF LimbLt(needle, o.ends) THEN Some(o) ELSE None

\* IPRangeSet::find: the last entry of range(..=needle), if its end reaches needle.
Find(set, needle) ==
  LET upto == SelectSeq(set, LAMBDA o : LimbLe(o.starts, needle))
  IN IF upto = <<>> THEN None
     ELSE LET o == upto[Len(upto)]
          IN IF LimbLe(needle, o.ends) THEN Some(o) ELSE None

\* ------------------------------------------------------------- IPDatabase

\* IPDatabase::new
IPDatabaseNew == [ipv4 |-> <<>>, ipv6 |-> <<>>, asn_map |-> <<>>]

ASNEntry(asn, country, description) ==
  [asn |-> asn, country |-> country, description |-> description]

\* HashMap::insert: the last record inserted for a key wins.
MapInsert(m, k, v) == [x \in DOMAIN m \cup {k} |-> IF x = k THEN v ELSE m[x]]

\* HashMap::get
MapGet(m, k) == IF k \in DOMAIN m THEN Some(m[k]) ELSE None

\* The two-byte country buffer of a row: zeroed unless the field has two bytes.
Country(country_code) == IF Len(country_code) = 2 THEN country_code ELSE <<0, 0>>

\* The match on the two addresses' families at the end of the loop body: the
\* range goes to the index of its family; a mixed pair goes nowhere.
IngestRange(db, s, e, asn) ==
  IF s.fam = 4 /\ e.fam = 4
  THEN [db EXCEPT !.ipv4 = Insert(@, UIntFromOctets(s.octets), UIntFromOctets(e.octets), asn)]
  ELSE IF s.fam = 6 /\ e.fam = 6
  THEN [db EXCEPT !.ipv6 = Insert(@, UIntFromOctets(s.octets), UIntFromOctets(e.octets), asn)]
  ELSE db

\* The loop body with the ASN record inserted only for a two-byte country code.
IngestParsedKnownCountry(db, fields, s, e, asn) ==
  IF Len(fields) < 4 THEN db
  ELSE IF Len(fields) < 5 THEN db
  ELSE IngestRange(IF Len(fields[4]) = 2
                   THEN [db EXCEPT !.asn_map =
                           MapInsert(@, asn, ASNEntry(asn, Country(fields[4]), fields[5]))]
                   ELSE db,
                   s, e, asn)

\* The loop body with the ASN record inserted before the fifth field is
\* looked for.
IngestParsedRecordFirst(db, fields, s, e, asn) ==
  IF Len(fields) < 4 THEN db
  ELSE IF Len(fields) < 5
  THEN [db EXCEPT !.asn_map = MapInsert(@, asn, ASNEntry(asn, Country(fields[4]), <<>>))]
  ELSE IngestRange([db EXCEPT !.asn_map =
                      MapInsert(@, asn, ASNEntry(asn, Country(fields[4]), fields[5]))],
                   s, e, asn)

\* The loop body once the first three fields have parsed: the fourth and the
\* fifth field are required, the ASN record is inserted, then the range.
IngestParsed(db, fields, s, e, asn) ==
  IF Len(fields) < 4 THEN db
  ELSE IF Len(fields) < 5 THEN db
  ELSE IngestRange([db EXCEPT !.asn_map =
                      MapInsert(@, asn, ASNEntry(asn, Country(fields[4]), fields[5]))],
                   s, e, asn)

\* The loop body after the three parses of the first three fields.
IngestFields(db, fields, s, e, a) ==
  IF ~(s.ok /\ e.ok /\ a.ok) THEN db ELSE IngestParsed(db, fields, s, e, a.val)

\* The loop body on the (at most five) tab-separated fields of a line.
IngestSplit(db, fields) ==
  IF Len(fields) < 3 THEN db
  ELSE IngestFields(db, fields,
                    ParseIpAddr(fields[1]), ParseIpAddr(fields[2]), ParseU32(fields[3]))

\* One iteration of load_from_tsv's loop: the database after the line.
IngestLine(db, line) == IngestSplit(db, Take(Split(line, TAB), 5))

\* The lookup of query once the text has parsed: find in the family's index,
\* then the ASN table.
QueryAddr(db, fam, needle) ==
  LET hit == Find(IF fam = 4 THEN db.ipv4 ELSE db.ipv6, needle)
  IN IF hit.some THEN MapGet(db.asn_map, hit.val.asn) ELSE None

\* IPDatabase::query
Query(db, ip) ==
  LET parsed_ip == ParseIpAddr(ip)
  IN IF parsed_ip.ok
     THEN QueryAddr(db, parsed_ip.fam, UIntFromOctets(parsed_ip.octets))
     ELSE None

\* ------------------------------------------------------------------- save

\* A writer that is Write + Seek over a growable buffer: its bytes and position.
NewWriter == [buf |-> <<>>, pos |-> 0]

\* Write::write_all at the writer's position: overwrites, and extends at the end.
Write(w, bytes) ==
  [buf |-> SubSeq(w.buf, 1, w.pos) \o bytes
             \o SubSeq(w.buf, w.pos + Len(bytes) + 1, Len(w.buf)),
   pos |-> w.pos + Len(bytes)]

\* Seek::seek(SeekFrom::Start(n))
SeekStart(w, n) == [w EXCEPT !.pos = n]

\* write_u16::<BigEndian>
WriteU16BE(n) == <<(n \div 256) % 256, n % 256>>

\* The header as first written by save: signature, version, a zero u64 and a
\* zero u32, the three counts, then the padding.
SaveHeader(w, db) ==
  LET w1 == Write(w, SIGNATURE)
      w2 == Write(w1, WriteU16BE(VERSION))
      w3 == Write(w2, Zeros(8))
      w4 == Write(w3, Zeros(4))
      w5 == Write(w4, WriteU32BE(Cardinality(DOMAIN db.asn_map)))
      w6 == Write(w5, WriteU32BE(Len(db.ipv4)))
      w7 == Write(w6, WriteU32BE(Len(db.ipv6)))
  IN Write(w7, Zeros(PADDING_SIZE))

RECURSIVE SaveAsns(_, _, _, _)
\* The loop of save over the ASN table, in the order the map iterates: each
\* record is its asn, its country and the token pack returns for its description.
SaveAsns(w, strpool, asn_map, order) ==
  IF order = <<>> THEN [w |-> w, strpool |-> strpool]
  ELSE LET asn == Head(order)
           entry == asn_map[asn]
           packed == Pack(strpool, entry.description)
           w1 == Write(w, WriteLimbsBE(asn))
           w2 == Write(w1, entry.country)
           w3 == Write(w2, packed.token)
       IN SaveAsns(w3, packed.sp, asn_map, Tail(order))

RECURSIVE SaveRanges(_, _)
\* The loops of save over an index, in ascending order of starts.
SaveRanges(w, set) ==
  IF set = <<>> THEN w
  ELSE LET i == Head(set)
           w1 == Write(w, WriteLimbsBE(i.starts))
           w2 == Write(w1, WriteLimbsBE(i.ends))
           w3 == Write(w2, WriteLimbsBE(i.asn))
       IN SaveRanges(w3, Tail(set))

\* The writer after the body: the pool is written at the position reached.
SavePool(w, strpool) == Write(w, strpool.pool)

\* The last step of save with the seek to 16, the end of the signature.
SavePatchAtVersion(w, strpl, length) ==
  LET w1 == SeekStart(w, 16)
      w2 == Write(w1, WriteU32BE(strpl))
  IN Write(w2, WriteU32BE(length))

\* The last step of save: seek to 16 + 2 and write the pool's position and length.
SavePatch(w, strpl, length) ==
  LET w1 == SeekStart(w, 16 + 2)
      w2 == Write(w1, WriteU32BE(strpl))
  IN Write(w2, WriteU32BE(length))

\* IPDatabase::save into writer w, with the ASN table iterated in `order`.
Save(w, db, order) ==
  LET h == SaveHeader(w, db)
      a == SaveAsns(h, StringPoolNew, db.asn_map, order)
      r4 == SaveRanges(a.w, db.ipv4)
      r6 == SaveRanges(r4, db.ipv6)
      strpl == r6.pos
      p == SavePool(r6, a.strpool)
  IN SavePatch(p, strpl, Len(a.strpool.pool))

\* The orders in which a HashMap with these keys may iterate.
Orders(keys) ==
  {o \in [1..Cardinality(keys) -> keys] : \A i, j \in DOMAIN o : i # j => o[i] # o[j]}

\* ------------------------------------------------------------------- load

LoadErr(kind, msg) == [result |-> kind, msg |-> msg, db |-> IPDatabaseNew]

\* Whether n bytes can be read at position pos (counted from 0) of the file.
CanRead(file, pos, n) == pos + n <= Len(file)

ReadAt(file, pos, n) == SubSeq(file, pos + 1, pos + n)

\* The bytes load hands to StringPool::load: read_to_string from the pool
\* position reads to the end of the file; str_length sizes the buffer only.
LoadPoolBytes(file, strpl_position, str_length) ==
  SubSeq(file, strpl_position + 1, Len(file))

RECURSIVE LoadAsns(_, _, _, _, _)
\* The loop of load over asn_count records of 4 + 2 + 8 bytes.
LoadAsns(file, pos, count, strpool, db) ==
  IF count = 0 THEN [result |-> "Ok", pos |-> pos, db |-> db]
  ELSE IF ~CanRead(file, pos, 14) THEN [result |-> "UnexpectedEof", pos |-> pos, db |-> db]
  ELSE LET asn == ReadLimbsBE(ReadAt(file, pos, 4))
           country == ReadAt(file, pos + 4, 2)
           des == ReadAt(file, pos + 6, 8)
           description == Unpack(strpool, des)
       IN IF description.panic THEN [result |-> "Panic", pos |-> pos, db |-> db]
          ELSE LoadAsns(file, pos + 14, count - 1, strpool,
                        [db EXCEPT !.asn_map =
                           MapInsert(@, asn, ASNEntry(asn, country, description.str))])

RECURSIVE LoadRanges(_, _, _, _, _)
\* The loops of load over the entries of an index, each 2 * width + 4 bytes.
LoadRanges(file, pos, count, width, set) ==
  IF count = 0 THEN [result |-> "Ok", pos |-> pos, set |-> set]
  ELSE IF ~CanRead(file, pos, 2 * width + 4)
  THEN [result |-> "UnexpectedEof", pos |-> pos, set |-> set]
  ELSE LET start_ip == ReadLimbsBE(ReadAt(file, pos, width))
           end_ip == ReadLimbsBE(ReadAt(file, pos + width, width))
           asn == ReadLimbsBE(ReadAt(file, pos + 2 * width, 4))
       IN LoadRanges(file, pos + 2 * width + 4, count - 1, width,
                     Insert(set, start_ip, end_ip, asn))

\* The header checks without the check of the version.
LoadCheckSignatureOnly(header) ==
  IF SubSeq(header, 1, 16) # SIGNATURE THEN LoadErr("InvalidData", "Invalid signature")
  ELSE [result |-> "Ok", msg |-> "", db |-> IPDatabaseNew]

\* The header checks of load: the error, or "Ok".
LoadCheckHeader(header) ==
  IF SubSeq(header, 1, 16) # SIGNATURE THEN LoadErr("InvalidData", "Invalid signature")
  ELSE IF ReadU16BE(SubSeq(header, 17, 18)) # VERSION
  THEN LoadErr("InvalidData", "Invalid version")
  ELSE [result |-> "Ok", msg |-> "", db |-> IPDatabaseNew]

\* IPDatabase::load of a reader over `file`, positioned at its start.
Load(file) ==
  IF ~CanRead(file, 0, HEADER_SIZE) THEN LoadErr("UnexpectedEof", "failed to fill whole buffer")
  ELSE
  LET header == ReadAt(file, 0, HEADER_SIZE)
      checked == LoadCheckHeader(header)
  IN IF checked.result # "Ok" THEN checked
     ELSE
     LET asn_count == ReadU32BE(SubSeq(header, 31, 34))
         ipv4_count == ReadU32BE(SubSeq(header, 35, 38))
         ipv6_count == ReadU32BE(SubSeq(header, 39, 42))
         strpl_position == ReadU32BE(SubSeq(header, 19, 22))
         str_length == ReadU32BE(SubSeq(header, 23, 26))
         strpl_buf == LoadPoolBytes(file, strpl_position, str_length)
     IN IF ~IsUtf8(strpl_buf)
        THEN LoadErr("InvalidData", "stream did not contain valid UTF-8")
        ELSE
        LET strpool == StringPoolLoad(strpl_buf)
            a == LoadAsns(file, HEADER_SIZE, asn_count, strpool, IPDatabaseNew)
        IN IF a.result = "Panic" THEN LoadErr("Panic", "byte index is not a char boundary")
           ELSE IF a.result # "Ok" THEN LoadErr(a.result, "failed to fill whole buffer")
           ELSE
           LET r4 == LoadRanges(file, a.pos, ipv4_count, 4, <<>>)
           IN IF r4.result # "Ok" THEN LoadErr(r4.result, "failed to fill whole buffer")
              ELSE
              LET r6 == LoadRanges(file, r4.pos, ipv6_count, 16, <<>>)
              IN IF r6.result # "Ok" THEN LoadErr(r6.result, "failed to fill whole buffer")
                 ELSE [result |-> "Ok", msg |-> "",
                       db |-> [ipv4 |-> r4.set, ipv6 |-> r6.set, asn_map |-> a.db.asn_map]]

\* --------------------------------------------------------------- inputs

\* The rows a TSV text is made of: good rows of both families, rows that share
\* a description or an AS number, and rows that are malformed in each way.
Rows ==
  { Bytes("2.0.0.0\t2.0.0.10\t100\tUS\tDESC"),
    Bytes("2.0.0.20\t2.0.0.30\t200\tUS\tDESC"),
    Bytes("2.0.0.11\t2.0.0.19\t100\tDE\tOTHER\textra"),
    Bytes("2.0.0.5\t2.0.0.25\t600\tFRA\tOVERLAP"),
    Bytes("2001:db8::\t2001:db8::ffff\t64500\t--\tEXAMPLE"),
    Bytes("2.0.0.40\t::1\t300\tUS\tMIXED"),
    Bytes("::2\t2.0.0.41\t301\tUS\tMIXED"),
    Bytes("2.0.0.9\t2.0.0.1\t400\tU\tINVERTED"),
    Bytes("garbage"),
    Bytes("2.0.0.50"),
    Bytes("2.0.0.50\t2.0.0.256\t500\tUS\tBADEND"),
    Bytes("2.0.0.50\t2.0.0.60"),
    Bytes("2.0.0.50\t2.0.0.60\tAS500\tUS\tBADASN"),
    Bytes("2.0.0.50\t2.0.0.60\t500"),
    Bytes("2.0.0.50\t2.0.0.60\t500\tUS"),
    <<>>,
    <<255>> }

RECURSIVE JoinLines(_)
\* The text whose lines are `rows`: the rows separated by '\n'.
JoinLines(rows) ==
  IF Len(rows) = 0 THEN <<>>
  ELSE IF Len(rows) = 1 THEN rows[1]
  ELSE rows[1] \o <<LF>> \o JoinLines(Tail(rows))

\* The TSV texts load_from_tsv is given: at most MaxLines rows.
Texts == {JoinLines(rows) : rows \in UNION {[1..n -> Rows] : n \in 0..MaxLines}}

\* Files that no save wrote: the wrong signature alone, the wrong signature
\* with a whole header, a header cut after the version, the empty file.
ForeignFiles ==
  { Bytes("WRONGSIGNATURE__"),
    Bytes("WRONGSIGNATURE__") \o Zeros(HEADER_SIZE - 16),
    SIGNATURE \o <<0, 3>>,
    SIGNATURE \o <<0, 3>> \o Zeros(HEADER_SIZE - 18),
    <<>> }

\* The file with the byte at offset p (from 0) set to v.
SetByte(file, p, v) == [file EXCEPT ![p + 1] = v]

\* Offsets and values of the single-byte changes made to a saved file: in the
\* signature, the version, the header's pool length, the first ASN record's
\* token length, and the asn of the first v4 entry.
ByteChanges(file) ==
  LET asn_count == ReadU32BE(SubSeq(file, 31, 34))
      ipv4_count == ReadU32BE(SubSeq(file, 35, 38))
  IN {<<0, 87>>, <<15, 67>>, <<16, 1>>, <<17, 1>>, <<17, 3>>, <<25, 0>>, <<25, 4>>}
     \cup (IF asn_count > 0 THEN {<<HEADER_SIZE + 10, 200>>} ELSE {})
     \cup (IF ipv4_count > 0 THEN {<<HEADER_SIZE + 14 * asn_count + 11, 77>>} ELSE {})

\* The files a saved file may be changed into before it is loaded: one byte
\* changed, bytes appended, or the end cut off.
Tampered(file) ==
  {SetByte(file, c[1], c[2]) : c \in {c \in ByteChanges(file) : file[c[1] + 1] # c[2]}}
  \cup {file \o Bytes("ZZ")}
  \cup {SubSeq(file, 1, n) :
          n \in {n \in {HEADER_SIZE - 1, HEADER_SIZE + 5, Len(file) - 1} : n < Len(file)}}

\* ------------------------------------------------------------ state machine

\* load_from_tsv, the whole call, on a reader over `text`: the result and the
\* database.
RECURSIVE LoadFromTsvAll(_, _)
LoadFromTsvAll(db, lines) ==
  IF lines = <<>> THEN db
  ELSE LoadFromTsvAll(IngestLine(db, Head(lines)), Tail(lines))

LoadFromTsv(db, text) ==
  IF IsUtf8(text)
  THEN [result |-> "Ok", db |-> LoadFromTsvAll(db, Split(text, LF))]
  ELSE [result |-> "InvalidData", db |-> db]

\* std::fs::File::create on an existing file: the file is truncated, and the
\* handle is opened for writing only.
FileCreate(disk) == [disk |-> <<>>, readable |-> FALSE]

\* read on a handle: the bytes of the file, or the error of the system call
\* on a handle that was not opened for reading (EBADF).
FileRead(f) ==
  IF f.readable THEN [ok |-> TRUE, bytes |-> f.disk]
  ELSE [ok |-> FALSE, bytes |-> <<>>]

\* load_from_tsv_file: File::create(path), then load_from_tsv on a BufReader
\* over the handle; read_to_string hands the error of the read on.
LoadFromTsvFile(db, disk) ==
  LET f == FileCreate(disk)
      rd == FileRead(f)
  IN IF rd.ok
     THEN LoadFromTsv(db, rd.bytes) @@ [disk |-> f.disk]
     ELSE [result |-> "BadFileDescriptor", db |-> db, disk |-> f.disk]

VARIABLES
  pc,         \* "new", "ingest" (inside load_from_tsv), "ready", "failed"
  contents,   \* load_from_tsv's local `contents`: the text read
  lines,      \* the lines of `contents` the loop has yet to take
  db,         \* the IPDatabase that load_from_tsv populates and save writes
  tsvResult,  \* what load_from_tsv returned: "none", "Ok", "InvalidData",
              \* "BadFileDescriptor"
  file,       \* the bytes of the snapshot file
  origin,     \* "none", "saved", "tampered", "foreign"
  loaded,     \* what load returned: result "none" before the call
  tsvFile     \* the bytes of the TSV file at the path of load_from_tsv_file

vars == <<pc, contents, lines, db, tsvResult, file, origin, loaded, tsvFile>>

NotLoaded == [result |-> "none", msg |-> "", db |-> IPDatabaseNew]

Init ==
  /\ pc = "new"
  /\ contents = <<>>
  /\ lines = <<>>
  /\ db = IPDatabaseNew
  /\ tsvResult = "none"
  /\ file = <<>>
  /\ origin = "none"
  /\ loaded = NotLoaded
  /\ tsvFile = <<>>

\* load_from_tsv up to its loop: read_to_string, which fails on bytes that are
\* not UTF-8, then the split into lines.
TsvRead ==
  /\ pc = "new"
  /\ origin = "none"
  /\ \E text \in Texts :
       IF IsUtf8(text)
       THEN /\ contents' = text
            /\ lines' = Split(text, LF)
            /\ pc' = "ingest"
            /\ tsvResult' = tsvResult
       ELSE /\ pc' = "failed"
            /\ tsvResult' = "InvalidData"
            /\ UNCHANGED <<contents, lines>>
  /\ UNCHANGED <<db, file, origin, loaded, tsvFile>>

\* One iteration of load_from_tsv's loop.
TsvLine ==
  /\ pc = "ingest"
  /\ lines # <<>>
  /\ db' = IngestLine(db, Head(lines))
  /\ lines' = Tail(lines)
  /\ UNCHANGED <<pc, contents, tsvResult, file, origin, loaded, tsvFile>>

\* load_from_tsv returns Ok(()) after the last line; `contents` is dropped.
TsvDone ==
  /\ pc = "ingest"
  /\ lines = <<>>
  /\ pc' = "ready"
  /\ tsvResult' = "Ok"
  /\ contents' = <<>>
  /\ UNCHANGED <<lines, db, file, origin, loaded, tsvFile>>

\* save into an empty writer at position 0.
SaveFile ==
  /\ pc = "ready"
  /\ origin = "none"
  /\ \E order \in Orders(DOMAIN db.asn_map) :
       file' = Save(NewWriter, db, order).buf
  /\ origin' = "saved"
  /\ UNCHANGED <<pc, contents, lines, db, tsvResult, loaded, tsvFile>>

\* The saved file is changed before it is read back.
Tamper ==
  /\ origin = "saved"
  /\ loaded.result = "none"
  /\ \E f \in Tampered(file) : file' = f
  /\ origin' = "tampered"
  /\ UNCHANGED <<pc, contents, lines, db, tsvResult, loaded, tsvFile>>

\* A process that only loads is given a file that save did not write.
Foreign ==
  /\ pc = "new"
  /\ origin = "none"
  /\ \E f \in ForeignFiles : file' = f
  /\ origin' = "foreign"
  /\ UNCHANGED <<pc, contents, lines, db, tsvResult, loaded, tsvFile>>

\* load of a reader over the file.
LoadFile ==
  /\ origin # "none"
  /\ loaded.result = "none"
  /\ loaded' = Load(file)
  /\ UNCHANGED <<pc, contents, lines, db, tsvResult, file, origin, tsvFile>>

\* A TSV file exists at the path before load_from_tsv_file is called.
TsvFileExists ==
  /\ pc = "new"
  /\ origin = "none"
  /\ tsvFile = <<>>
  /\ \E text \in Texts : tsvFile' = text
  /\ pc' = "onDisk"
  /\ UNCHANGED <<contents, lines, db, tsvResult, file, origin, loaded>>

\* load_from_tsv_file(path), the whole call.
TsvFile ==
  /\ pc = "onDisk"
  /\ LET r == LoadFromTsvFile(db, tsvFile)
     IN /\ db' = r.db
        /\ tsvResult' = r.result
        /\ tsvFile' = r.disk
        /\ pc' = IF r.result = "Ok" THEN "ready" ELSE "failed"
  /\ UNCHANGED <<contents, lines, file, origin, loaded>>

Next ==
  \/ TsvRead \/ TsvLine \/ TsvDone \/ SaveFile \/ Tamper \/ Foreign \/ LoadFile
  \/ TsvFileExists \/ TsvFile

Spec == Init /\ [][Next]_vars

\* ------------------------------------------------ definitions for the claims

\* The addresses queried: the ends of the rows' ranges, their neighbours,
\* points inside and outside, and a text that is no address.
Probes ==
  { Bytes("1.255.255.255"), Bytes("2.0.0.0"), Bytes("2.0.0.1"), Bytes("2.0.0.2"),
    Bytes("2.0.0.4"), Bytes("2.0.0.5"), Bytes("2.0.0.8"), Bytes("2.0.0.9"),
    Bytes("2.0.0.10"), Bytes("2.0.0.11"), Bytes("2.0.0.15"), Bytes("2.0.0.19"),
    Bytes("2.0.0.20"), Bytes("2.0.0.25"), Bytes("2.0.0.26"), Bytes("2.0.0.30"),
    Bytes("2.0.0.31"), Bytes("2.0.0.40"), Bytes("255.255.255.255"),
    Bytes("2001:db7:ffff:ffff:ffff:ffff:ffff:ffff"), Bytes("2001:db8::"),
    Bytes("2001:db8::1"), Bytes("2001:db8::ffff"), Bytes("2001:db8::1:0"),
    Bytes("::"), Bytes("::1"), Bytes("::2"), Bytes("not-an-ip"), Bytes("2.0.0.10 ") }

\* The text parses as an address of the family.
IsIp(text, fam) == ParseIpAddr(text).ok /\ ParseIpAddr(text).fam = fam

\* The integer of the address a text parses as.
AddrOf(text) == UIntFromOctets(ParseIpAddr(text).octets)

\* The probes that are addresses of the family.
ProbesOf(fam) == {text \in Probes : IsIp(text, fam)}

\* The index of an address family.
Index(d, fam) == IF fam = 4 THEN d.ipv4 ELSE d.ipv6

\* s <= x <= e
Within(x, r) == LimbLe(r.starts, x) /\ LimbLe(x, r.ends)

\* Some entry of the index covers x.
Covered(x, set) == \E i \in 1..Len(set) : Within(x, set[i])

\* The ranges of an index do not overlap: each entry ends before the next starts.
NonOverlap(set) ==
  \A i, j \in 1..Len(set) : i < j => LimbLt(set[i].ends, set[j].starts)

\* x = y + 1 for two unsigned integers of the same width (no wrap-around).
IsSucc(x, y) ==
  \E k \in 1..Len(y) :
    /\ y[k] < 65535
    /\ \A i \in (k + 1)..Len(y) : y[i] = 65535
    /\ x = [i \in 1..Len(y) |-> IF i < k THEN y[i] ELSE IF i = k THEN y[i] + 1 ELSE 0]

\* What find is to return: of the entries that start at or before the needle,
\* the one with the greatest start, when its end is at or after the needle.
FindSpec(set, needle) ==
  LET below == {i \in 1..Len(set) : LimbLe(set[i].starts, needle)}
  IN IF below = {} THEN None
     ELSE LET g == CHOOSE i \in below : \A j \in below : LimbLe(set[j].starts, set[i].starts)
          IN IF LimbLe(needle, set[g].ends) THEN Some(set[g]) ELSE None

\* Every range entry's asn is a key of the ASN table.
RefIntegrity(d) ==
  /\ \A i \in 1..Len(d.ipv4) : d.ipv4[i].asn \in DOMAIN d.asn_map
  /\ \A i \in 1..Len(d.ipv6) : d.ipv6[i].asn \in DOMAIN d.asn_map

\* The lines load_from_tsv's loop has taken so far.
Consumed ==
  LET all == Split(contents, LF)
  IN SubSeq(all, 1, Len(all) - Len(lines))

RECURSIVE IngestAll(_, _)
\* The database after the loop body has run on each of the lines in turn.
IngestAll(d, ls) == IF ls = <<>> THEN d ELSE IngestAll(IngestLine(d, Head(ls)), Tail(ls))

\* A line in which range_start, range_end or asn is missing or does not parse,
\* or in which the fourth or the fifth field is missing.
Malformed(line) ==
  LET fields == Take(Split(line, TAB), 5)
  IN \/ Len(fields) < 5
     \/ ~ParseIpAddr(fields[1]).ok
     \/ ~ParseIpAddr(fields[2]).ok
     \/ ~ParseU32(fields[3]).ok

\* A line that is not malformed and whose two addresses are of different families.
MixedFamily(line) ==
  /\ ~Malformed(line)
  /\ LET fields == Take(Split(line, TAB), 5)
     IN ParseIpAddr(fields[1]).fam # ParseIpAddr(fields[2]).fam

\* The header fields of a snapshot file of at least HEADER_SIZE bytes.
HdrPoolOffset(f) == ReadU32BE(SubSeq(f, 19, 22))
HdrPoolLength(f) == ReadU32BE(SubSeq(f, 23, 26))
HdrReserved(f) == ReadU32BE(SubSeq(f, 27, 30))
HdrAsnCount(f) == ReadU32BE(SubSeq(f, 31, 34))
HdrIpv4Count(f) == ReadU32BE(SubSeq(f, 35, 38))
HdrIpv6Count(f) == ReadU32BE(SubSeq(f, 39, 42))

\* The k-th ASN record of the body (k from 0): its asn, country and token.
FileAsnRecord(f, k) ==
  LET at == HEADER_SIZE + 14 * k
  IN [asn |-> ReadLimbsBE(ReadAt(f, at, 4)),
      country |-> ReadAt(f, at + 4, 2),
      offset |-> FromLeBytes(ReadAt(f, at + 6, 4)),
      length |-> FromLeBytes(ReadAt(f, at + 10, 4))]

\* The bytes of the file that the header declares to be the string pool.
HdrPool(f) == SubSeq(f, HdrPoolOffset(f) + 1, HdrPoolOffset(f) + HdrPoolLength(f))

\* The number of places at which d occurs in pool.
Occurrences(pool, d) ==
  Cardinality({i \in 0..(Len(pool) - Len(d)) : SubSeq(pool, i + 1, i + Len(d)) = d})

\* The AS numbers whose record carries description d.
AsnsWith(d, desc) == {a \in DOMAIN d.asn_map : d.asn_map[a].description = desc}

\* ------------------------------------------------------------------ claims

\* C1: a database populated by load_from_tsv, saved, and loaded back from the
\* bytes written answers every query as the original does: both none, or a
\* record with the same asn, country and description.
RoundTrip ==
  (origin = "saved" /\ loaded.result # "none") =>
    /\ loaded.result = "Ok"
    /\ \A x \in Probes : Query(loaded.db, x) = Query(db, x)

\* A round trip of a database with a v4 and a v6 range, queried inside both
\* and outside.
RoundTripWitness ==
  /\ origin = "saved"
  /\ loaded.result = "Ok"
  /\ \E x \in ProbesOf(4) : Query(db, x).some
  /\ \E y \in ProbesOf(6) : Query(db, y).some
  /\ \E z \in ProbesOf(4) : ~Query(db, z).some

\* C2: in a database built by load_from_tsv, for a range (s, e, a) of an index
\* whose ranges do not overlap, query(x) is the record of a for s <= x <= e;
\* query(x) is none for x = s - 1 and x = e + 1 when no range covers x; and
\* find returns the entry of greatest start <= needle exactly when that
\* entry's end >= needle.
RangeCorrect ==
  (pc \in {"ingest", "ready"} /\ origin = "none") =>
    \A text \in Probes :
      LET ip == ParseIpAddr(text)
          x == UIntFromOctets(ip.octets)
          set == Index(db, ip.fam)
          q == Query(db, text)
          disjoint == NonOverlap(set)
          uncovered == ~Covered(x, set)
      IN ip.ok =>
           /\ Find(set, x) = FindSpec(set, x)
           /\ \A i \in 1..Len(set) :
                /\ (disjoint /\ Within(x, set[i])) =>
                     (q.some /\ q = MapGet(db.asn_map, set[i].asn))
                /\ ((IsSucc(set[i].starts, x) \/ IsSucc(x, set[i].ends)) /\ uncovered) =>
                     q = None

\* Two ranges that do not overlap, with queries at both ends of one, just
\* before it and just after it, the latter two answered none.
RangeCorrectWitness ==
  /\ pc = "ready"
  /\ Len(db.ipv4) = 2
  /\ NonOverlap(db.ipv4)
  /\ \E i \in 1..Len(db.ipv4) :
       /\ \E lo \in ProbesOf(4) :
            /\ AddrOf(lo) = db.ipv4[i].starts
            /\ Query(db, lo).some
            /\ Query(db, lo).val.asn = db.ipv4[i].asn
       /\ \E hi \in ProbesOf(4) :
            AddrOf(hi) = db.ipv4[i].ends /\ Query(db, hi).some
       /\ \E before \in ProbesOf(4) :
            IsSucc(db.ipv4[i].starts, AddrOf(before)) /\ ~Query(db, before).some
       /\ \E after \in ProbesOf(4) :
            IsSucc(AddrOf(after), db.ipv4[i].ends) /\ ~Query(db, after).some

\* C3: when the ingested TSV gives one description to two or more ASNs, the
\* string pool that save writes holds that description's bytes exactly once.
Dedup ==
  origin = "saved" =>
    \A a \in DOMAIN db.asn_map :
      Cardinality(AsnsWith(db, db.asn_map[a].description)) >= 2 =>
        Occurrences(HdrPool(file), db.asn_map[a].description) = 1

\* The file has its first 16 bytes and they are not the signature, or it has
\* the signature and a version field that is not VERSION.
BadHeader(f) ==
  \/ Len(f) >= 16 /\ SubSeq(f, 1, 16) # SIGNATURE
  \/ Len(f) >= 18 /\ SubSeq(f, 1, 16) = SIGNATURE /\ ReadU16BE(SubSeq(f, 17, 18)) # VERSION

\* C4 as stated: load of any file with a wrong signature, or with the right
\* signature and a wrong version, fails with an invalid-data error.
HeaderRejectAnyFile ==
  (loaded.result # "none" /\ BadHeader(file)) => loaded.result = "InvalidData"

\* C4 amended: load of a file of at least HEADER_SIZE bytes with a wrong
\* signature, or with the right signature and a wrong version, fails with an
\* invalid-data error and returns no database; a shorter file fails too, with
\* an unexpected-end-of-file error.
HeaderReject ==
  (loaded.result # "none" /\ BadHeader(file)) =>
    /\ loaded.result = (IF Len(file) >= HEADER_SIZE THEN "InvalidData" ELSE "UnexpectedEof")
    /\ loaded.db = IPDatabaseNew

\* A saved file with one byte of its signature changed was rejected.
HeaderRejectWitness ==
  /\ loaded.result = "InvalidData"
  /\ Len(file) > HEADER_SIZE
  /\ Cardinality({i \in 1..16 : file[i] # SIGNATURE[i]}) = 1

\* C5 as stated: after a successful load_from_tsv and after any successful
\* load, every range entry's asn is a key of the ASN table.
RefIntegrityAnyLoad ==
  /\ pc = "ready" => RefIntegrity(db)
  /\ loaded.result = "Ok" => RefIntegrity(loaded.db)

\* C5 amended: after a successful load_from_tsv, and after a successful load of
\* a snapshot that save wrote from such a database, every range entry's asn is
\* a key of the ASN table.
RefIntegrityHolds ==
  /\ pc = "ready" => RefIntegrity(db)
  /\ (loaded.result = "Ok" /\ origin = "saved") => RefIntegrity(loaded.db)

\* A database with ranges in both indexes was ingested, saved and loaded.
RefIntegrityWitness ==
  /\ pc = "ready"
  /\ origin = "saved"
  /\ loaded.result = "Ok"
  /\ Len(db.ipv4) >= 1 /\ Len(db.ipv6) >= 1
  /\ Len(loaded.db.ipv4) >= 1 /\ Len(loaded.db.ipv6) >= 1

\* C6: a malformed line adds nothing: when the loop has taken every line, the
\* database is the one the lines that are not malformed give, in their order;
\* and load_from_tsv returns Ok.
SkipsMalformed ==
  /\ (pc = "ingest" /\ lines = <<>>) =>
       db = IngestAll(IPDatabaseNew, SelectSeq(Consumed, LAMBDA l : ~Malformed(l)))
  /\ pc = "ready" => tsvResult = "Ok"

\* A text whose first line is malformed and whose second line was ingested.
SkipsMalformedWitness ==
  /\ pc = "ingest"
  /\ lines = <<>>
  /\ Len(Consumed) = 2
  /\ Malformed(Consumed[1])
  /\ Consumed[1] # <<>>
  /\ ~Malformed(Consumed[2])
  /\ Len(db.ipv4) = 1

\* C7: a row of mixed families changes nothing: when the loop has taken every
\* line, the database is the one the other lines give.
SkipsMixedFamily ==
  (pc = "ingest" /\ lines = <<>>) =>
    db = IngestAll(IPDatabaseNew, SelectSeq(Consumed, LAMBDA l : ~MixedFamily(l)))

\* C8: after save into an empty writer, header bytes 18..22 hold the position
\* of the pool, which is 1024 + 14 * asn_count + 12 * ipv4_count + 36 *
\* ipv6_count and from which the pool runs to the end of the file; bytes
\* 22..26 hold the pool's length; the reserved word is zero; and the three
\* counts are those of the ASN records and range entries written in the body.
BackPointers ==
  origin = "saved" =>
    LET A == Cardinality(DOMAIN db.asn_map)
        V4 == Len(db.ipv4)
        V6 == Len(db.ipv6)
        off == HdrPoolOffset(file)
        len == HdrPoolLength(file)
    IN /\ off = HEADER_SIZE + 14 * A + 12 * V4 + 36 * V6
       /\ Len(file) = off + len
       /\ HdrReserved(file) = 0
       /\ HdrAsnCount(file) = A
       /\ HdrIpv4Count(file) = V4
       /\ HdrIpv6Count(file) = V6
       /\ SubSeq(file, 1, 16) = SIGNATURE
       /\ ReadU16BE(SubSeq(file, 17, 18)) = VERSION
       /\ {FileAsnRecord(file, k).asn : k \in 0..(A - 1)} = DOMAIN db.asn_map
       /\ \A k \in 0..(A - 1) :
            LET r == FileAsnRecord(file, k)
            IN /\ r.country = db.asn_map[r.asn].country
               /\ r.offset + r.length <= len
               /\ ReadAt(file, off + r.offset, r.length) = db.asn_map[r.asn].description
       /\ \A k \in 1..V4 :
            ReadAt(file, HEADER_SIZE + 14 * A + 12 * (k - 1), 12)
              = WriteLimbsBE(db.ipv4[k].starts \o db.ipv4[k].ends \o db.ipv4[k].asn)
       /\ \A k \in 1..V6 :
            ReadAt(file, HEADER_SIZE + 14 * A + 12 * V4 + 36 * (k - 1), 36)
              = WriteLimbsBE(db.ipv6[k].starts \o db.ipv6[k].ends \o db.ipv6[k].asn)

\* A saved database with two ASN records, a v4 and a v6 entry, and a pool.
BackPointersWitness ==
  /\ origin = "saved"
  /\ Cardinality(DOMAIN db.asn_map) = 2
  /\ Len(db.ipv4) = 1
  /\ Len(db.ipv6) = 1
  /\ HdrPoolLength(file) > 0

\* C9: the pool load adopts is the header's pool length of bytes at the pool
\* offset, so a record whose token's offset + length exceeds the header's pool
\* length is loaded with the empty description.
PoolIsHeaderLength ==
  loaded.result = "Ok" =>
    \A k \in 0..(HdrAsnCount(file) - 1) :
      LET r == FileAsnRecord(file, k)
      IN r.offset + r.length > HdrPoolLength(file) =>
           loaded.db.asn_map[r.asn].description = <<>>

\* C10: every range entry of the v4 and the v6 index has start <= end.
RangesOrdered ==
  /\ \A i \in 1..Len(db.ipv4) : LimbLe(db.ipv4[i].starts, db.ipv4[i].ends)
  /\ \A i \in 1..Len(db.ipv6) : LimbLe(db.ipv6[i].starts, db.ipv6[i].ends)

\* C11: load_from_tsv_file on an existing TSV file leaves the bytes of the
\* file as they were, and gives the result and the database that load_from_tsv
\* gives on a reader over those bytes.
TsvFileKept ==
  [][pc = "onDisk" =>
       /\ tsvFile' = tsvFile
       /\ tsvResult' = LoadFromTsv(db, tsvFile).result
       /\ db' = LoadFromTsv(db, tsvFile).db]_vars

====
